---- MODULE Spec2Model ----
(***************************************************************************)
(* GroceryList (spoonacular_api.py): a client object over the spoonacular  *)
(* HTTP API.  The model keeps the client object (session), the remote      *)
(* shopping list it reads and writes, the position of the running public   *)
(* call between two of its HTTP requests (pc, cur), the requests that call *)
(* has issued (log) and what the call handed back (result).                *)
(*                                                                         *)
(* Numbers carry their payload n in thousandths, so that cents with one    *)
(* decimal, dollars with two decimals and plain integers share one scale.  *)
(***************************************************************************)
EXTENDS Integers, Sequences, FiniteSets, TLC

VARIABLES session, remote, nextId, pc, cur, log, result, ext

vars == <<session, remote, nextId, pc, cur, log, result, ext>>

----------------------------------------------------------------------------
\* Bounds of the model.

\* Items the remote shopping list holds at most.
MaxItems == 2
\* Arguments a deleteItem / searchRecipe call is given at most.
MaxArgs == 2
\* Items the remote creates at most (it numbers them 1, 2, ...).
MaxId == 3

\* Thousandths in one unit.
Milli == 10 * 100

----------------------------------------------------------------------------
\* Python values: the type name t, the text s of a str, the number n (in
\* thousandths) of an int, float or bool.

PyStr(x) == [t |-> "str", s |-> x, n |-> 0]
PyInt(k) == [t |-> "int", s |-> "", n |-> k * Milli]
PyFloat(m) == [t |-> "float", s |-> "", n |-> m]
PyBool(b) == [t |-> "bool", s |-> "", n |-> IF b THEN Milli ELSE 0]
PyNone == [t |-> "NoneType", s |-> "", n |-> 0]
NaN == [t |-> "nan", s |-> "", n |-> 0]

\* isinstance(v, str)
IsInstanceStr(v) == v.t = "str"

\* isinstance(v, int): bool is a subclass of int.
IsInstanceInt(v) == v.t \in {"int", "bool"}

\* isinstance(v, (int, float))
IsInstanceIntOrFloat(v) == v.t \in {"int", "bool", "float"}

\* x / 100 cut to 2 decimals.
RoundTrunc(x, up) == ((x \div 100) \div 10) * 10

\* round(x / 100, 2): x / 100 is x \div 100 on the values used (multiples of
\* a tenth of a cent); round gives the nearest multiple of 0.01, and at a
\* tie the neighbour the binary value of the quotient lies nearer to
\* (round(0.025, 2) = 0.03, round(0.045, 2) = 0.04), here the choice up.
Round2(x, up) ==
    LET q == x \div 100
        lo == (q \div 10) * 10
        r == q % 10
    IN  IF r < 5 THEN lo
        ELSE IF r > 5 THEN lo + 10
        ELSE IF up THEN lo + 10 ELSE lo

\* The concatenation of the sequences of ss, in order.
RECURSIVE Flatten(_)
Flatten(ss) == IF ss = <<>> THEN <<>> ELSE Head(ss) \o Flatten(Tail(ss))

Range(s) == {s[i] : i \in 1..Len(s)}

----------------------------------------------------------------------------
\* The remote service.

\* API keys: the remote accepts GoodKey only.
GoodKey == "key-ok"
BadKey == "key-bad"

\* POST users/connect answers 401 to a key it does not know, and otherwise
\* with its own username and a hash.
ConnectStatus(key) == IF key = GoodKey THEN 200 ELSE 401

ConnectJson(username) ==
    [username |-> username \o "-7f", hash |-> "hash-" \o username]


\* The recipes of the remote, most popular first.  pricePerServing is in
\* cents.
Catalogue ==
    << [id |-> 715, title |-> "Red Lentil Soup", kind |-> "soup",
        servings |-> 8, pricePerServing |-> 277400, has |-> {"milk"}],
       [id |-> 638, title |-> "Black Bean Soup", kind |-> "soup",
        servings |-> 8, pricePerServing |-> 143500, has |-> {"milk", "flour"}],
       [id |-> 999, title |-> "Mulligatawny Soup", kind |-> "soup",
        servings |-> 6, pricePerServing |-> 248000, has |-> {}],
       [id |-> 639, title |-> "Matzo Ball Soup", kind |-> "soup",
        servings |-> 6, pricePerServing |-> 207700, has |-> {"flour"}],
       [id |-> 109, title |-> "Lemon Orzo Soup", kind |-> "soup",
        servings |-> 8, pricePerServing |-> 237000, has |-> {"milk"}],
       [id |-> 661, title |-> "Spinach Soup", kind |-> "soup",
        servings |-> 4, pricePerServing |-> 243100, has |-> {"milk"}],
       [id |-> 400, title |-> "Pound Cake", kind |-> "cake",
        servings |-> 4, pricePerServing |-> 92500, has |-> {"milk", "flour"}] >>

\* GET recipes/complexSearch with sort=popularity and number=n: the first n
\* recipes, most popular first, that match the query and hold every
\* ingredient asked for (the client sends the filters as the text of the
\* tuple; the remote is taken to read the names in it).
RECURSIVE Matching(_, _, _)
Matching(recipes, query, ingreds) ==
    IF recipes = <<>> THEN <<>>
    ELSE LET r == Head(recipes)
             rest == Matching(Tail(recipes), query, ingreds)
         IN  IF r.kind = query /\ ingreds \subseteq r.has
             THEN <<r>> \o rest ELSE rest

SearchJson(query, ingreds, number) ==
    LET all == Matching(Catalogue, query, ingreds)
    IN  [results |-> SubSeq(all, 1, IF Len(all) < number THEN Len(all) ELSE number)]

\* GET recipes/{id}/ingredientWidget.json: the ingredients of a recipe, each
\* amount in a metric and a US branch.
Ingredient(name, mv, mu, uv, uu) ==
    [name |-> name,
     amount |-> [metric |-> [value |-> mv, unit |-> mu],
                 us |-> [value |-> uv, unit |-> uu]]]

RecipeIngredients(id) ==
    IF id = 638
    THEN << Ingredient("milk", 250000, "ml", 1000, "cup"),
            Ingredient("flour", 100500, "g", 3500, "oz") >>
    ELSE IF id = 400
    THEN << Ingredient("flour", 100500, "g", 3500, "oz"),
            Ingredient("milk", 250000, "ml", 1000, "cup") >>
    ELSE <<>>

\* The recipe ids the remote knows; 999 is a recipe that lists no ingredient.
KnownRecipes == {638, 400, 999}

\* The recipe the text of a value in the URL names, 0 when none.
UrlRecipe(v) ==
    IF v.t = "int" /\ (v.n \div Milli) \in KnownRecipes THEN v.n \div Milli ELSE 0

\* The cost, in cents, the remote puts on an item, and the aisle it files it
\* under.
CostOf(name) == IF name = "milk" THEN 12700 ELSE 4500

AisleOf(name) == IF name = "milk" THEN "Dairy" ELSE "Baking"

\* The shopping list: aisles in order, each with its items in order.
Items(aisles) == Flatten([a \in 1..Len(aisles) |-> aisles[a].items])

RECURSIVE SumCost(_)
SumCost(items) ==
    IF items = <<>> THEN 0 ELSE Head(items).cost + SumCost(Tail(items))

\* GET mealplanner/{username}/shopping-list
ShoppingListJson(aisles) == [aisles |-> aisles, cost |-> SumCost(Items(aisles))]

\* POST mealplanner/{username}/shopping-list/items with {item, parse}: the
\* remote parses the text into a new item, prices it and files it last under
\* its aisle, a new last aisle when the list has none of that name.
RemoteAdd(aisles, id, item) ==
    LET new == [id |-> id, name |-> item.name.s,
                measures |-> [metric |-> [amount |-> item.amount.n,
                                          unit |-> item.unit.s]],
                cost |-> CostOf(item.name.s)]
        name == AisleOf(item.name.s)
    IN  IF \E a \in 1..Len(aisles) : aisles[a].aisle = name
        THEN [a \in 1..Len(aisles) |->
                 IF aisles[a].aisle = name
                 THEN [aisles[a] EXCEPT !.items = Append(@, new)] ELSE aisles[a]]
        ELSE Append(aisles, [aisle |-> name, items |-> <<new>>])

\* DELETE mealplanner/{username}/shopping-list/items/{id}: the item leaves
\* its aisle.
RemoveId(items, id) == SelectSeq(items, LAMBDA it : it.id # id)

RemoteDelete(aisles, id) ==
    [a \in 1..Len(aisles) |-> [aisles[a] EXCEPT !.items = RemoveId(@, id)]]

\* The aisles that hold an item.
Pruned(aisles) == SelectSeq(aisles, LAMBDA a : a.items # <<>>)

\* The item id the text of a value in the URL names, 0 when none.
UrlItemId(v) == IF v.t = "int" THEN v.n \div Milli ELSE 0

ItemIds(aisles) == {it.id : it \in Range(Items(aisles))}

\* What a request comes to: an answer that carries what was asked for, an
\* answer with an error status and an error body, or no answer (the
\* transport raises).
Outcomes == {"ok", "rejected", "transport"}

----------------------------------------------------------------------------
\* The client.

\* No GroceryList object.
NoSession == [username |-> "", hash |-> "", API_Key |-> ""]

NoJson == [aisles |-> <<>>, cost |-> 0]

\* What a public call handed back: nothing yet, an exception, a table, or
\* (the constructor) the object.
NoResult == [kind |-> "none", error |-> "", table |-> <<>>]
Raised(e) == [kind |-> "error", error |-> e, table |-> <<>>]
Returned(t) == [kind |-> "table", error |-> "", table |-> t]
Constructed == [kind |-> "object", error |-> "", table |-> <<>>]

\* The public call that runs or ran last: its name and arguments, the
\* object the caller held and the remote list when it began, the recipes or
\* ingredients the remote answered with, the loop iterations it completed
\* and the shopping-list answer it fetched.
Call(op, args) ==
    [op |-> op, args |-> args, had |-> session, before |-> remote,
     found |-> <<>>, ingr |-> <<>>, looked |-> FALSE, i |-> 0,
     json |-> NoJson, fetched |-> FALSE]

\* One HTTP request and what it came to.
NoItem == [amount |-> PyNone, unit |-> PyNone, name |-> PyNone]
Request(m, ep, id, item, out) ==
    [m |-> m, ep |-> ep, id |-> id, item |-> item, out |-> out]

\* The exception a GET whose answer is read with .json()[key] ends in.
GetError(out) == IF out = "transport" THEN "ConnectionError" ELSE "KeyError"

\* requests.post / requests.delete in a loop: the answer is not looked at;
\* only the transport's exception leaves the loop.
\* Variant, for the sensitivity of the properties: an error status raises too.
RequestRaisesOnErrorStatus(out) == out # "ok"

RequestRaises(out) == out = "transport"

Init ==
    /\ session = NoSession
    /\ remote = <<>>
    /\ nextId = 1
    /\ pc = "idle"
    /\ cur = Call("none", <<>>)
    /\ log = <<>>
    /\ result = NoResult
    /\ ext = FALSE

\* A call that ends before its first request.
Fails(op, args, e) ==
    /\ cur' = Call(op, args)
    /\ log' = <<>>
    /\ result' = Raised(e)
    /\ ext' = FALSE
    /\ UNCHANGED <<session, remote, nextId, pc>>

----------------------------------------------------------------------------
\* GroceryList.__init__

CtorArgsValid(args) == \A i \in 1..5 : IsInstanceStr(args[i])

\* Variant, for the sensitivity of the properties: the caller's username is kept.
SessionFromArgs(args, json) ==
    [username |-> args[1].s, hash |-> json.hash, API_Key |-> args[5].s]

SessionOf(args, json) ==
    [username |-> json.username, hash |-> json.hash, API_Key |-> args[5].s]

CtorInputs ==
    { <<u, f, l, e, k>> :
        u \in {PyStr("ann"), PyInt(7)}, f \in {PyStr("Ann"), PyNone},
        l \in {PyStr("Lee"), PyNone}, e \in {PyStr("ann@x.org")},
        k \in {PyStr(GoodKey), PyStr(BadKey), PyNone} }

Construct(args) ==
    /\ pc = "idle"
    /\ IF ~CtorArgsValid(args)
       THEN Fails("__init__", args, "AssertionError")
       ELSE \E out \in Outcomes :
            LET status == IF out = "ok" THEN ConnectStatus(args[5].s) ELSE 500
                req == Request("POST", "users/connect", PyNone, NoItem,
                               IF status = 401 THEN "unauthorized" ELSE out)
            IN  /\ cur' = Call("__init__", args)
                /\ log' = <<req>>
                /\ ext' = FALSE
                /\ UNCHANGED <<remote, nextId, pc>>
                /\ IF out = "transport"
                   THEN result' = Raised("ConnectionError") /\ UNCHANGED session
                   ELSE IF status = 401
                   THEN /\ result' = Raised("Exception: Not authorized, please check API Key")
                        /\ UNCHANGED session
                   ELSE IF status # 200
                   THEN result' = Raised("KeyError") /\ UNCHANGED session
                   ELSE /\ session' = SessionOf(args, ConnectJson(args[1].s))
                        /\ result' = Constructed

----------------------------------------------------------------------------
\* GroceryList.searchRecipe

\* number=5 of the search endpoint.
SearchNumber == 5

\* The money values of a set that lie halfway between two cents.
Ties(values) == {v \in values : (v \div 100) % 10 = 5}

QueryValid(query) == IsInstanceStr(query)

IngredsValid(includeIngreds) ==
    \A i \in 1..Len(includeIngreds) : IsInstanceStr(includeIngreds[i])

\* Variant, for the sensitivity of the properties: the price is cut, not rounded.
SearchRowTruncated(recipe, ups) ==
    [Recipe |-> PyStr(recipe.title), Servings |-> PyInt(recipe.servings),
     PricePerServing |-> PyFloat(RoundTrunc(recipe.pricePerServing, FALSE)),
     RecipeID |-> PyInt(recipe.id)]

SearchRow(recipe, ups) ==
    [Recipe |-> PyStr(recipe.title), Servings |-> PyInt(recipe.servings),
     PricePerServing |->
         PyFloat(Round2(recipe.pricePerServing, recipe.pricePerServing \in ups)),
     RecipeID |-> PyInt(recipe.id)]

SearchTable(json, ups) ==
    [i \in 1..Len(json.results) |-> SearchRow(json.results[i], ups)]

\* The money values of a search answer.
PricesOf(json) == {r.pricePerServing : r \in Range(json.results)}

Queries == {PyStr("soup"), PyStr("cake"), PyStr("stew"), PyInt(5)}
Filters == {PyStr("milk"), PyNone}

\* The sequences over S of length at most n.
SeqsUpTo(S, n) == UNION {[1..k -> S] : k \in 0..n}

SearchRecipe(query, ingreds) ==
    /\ pc = "idle"
    /\ session # NoSession
    /\ LET args == <<query>> \o ingreds
       IN  IF ~QueryValid(query)
           THEN Fails("searchRecipe", args, "AssertionError")
           ELSE IF ~IngredsValid(ingreds)
           THEN Fails("searchRecipe", args, "Exception: Ingredients must be in strings")
           ELSE \E out \in Outcomes :
                LET json == SearchJson(query.s, {v.s : v \in Range(ingreds)}, SearchNumber)
                    req == Request("GET", "recipes/complexSearch", PyNone, NoItem, out)
                IN  /\ cur' = IF out = "ok"
                              THEN [Call("searchRecipe", args) EXCEPT !.found = json.results]
                              ELSE Call("searchRecipe", args)
                    /\ log' = <<req>>
                    /\ ext' = FALSE
                    /\ IF out = "ok"
                       THEN \E ups \in SUBSET Ties(PricesOf(json)) :
                                result' = Returned(SearchTable(json, ups))
                       ELSE result' = Raised(GetError(out))
                    /\ UNCHANGED <<session, remote, nextId, pc>>

----------------------------------------------------------------------------
\* GroceryList.getIngredients

RecipeIdValid(recipeID) == IsInstanceInt(recipeID)

\* Variant, for the sensitivity of the properties: the US branch is read.
IngredientRowUS(ingredient) ==
    [Ingredient |-> PyStr(ingredient.name),
     Amount |-> PyFloat(ingredient.amount.us.value),
     Unit |-> PyStr(ingredient.amount.us.unit)]

IngredientRow(ingredient) ==
    [Ingredient |-> PyStr(ingredient.name),
     Amount |-> PyFloat(ingredient.amount.metric.value),
     Unit |-> PyStr(ingredient.amount.metric.unit)]

IngredientTable(json) ==
    [i \in 1..Len(json.ingredients) |-> IngredientRow(json.ingredients[i])]

\* The answer of the ingredient widget to the recipe id in the URL: the
\* remote has no ingredient list for an id it does not know.
IngredientsOutcome(recipeID, out) ==
    IF out = "ok" /\ UrlRecipe(recipeID) = 0 THEN "rejected" ELSE out

IngredientsJson(recipeID) == [ingredients |-> RecipeIngredients(UrlRecipe(recipeID))]

RecipeIds == {PyInt(638), PyInt(999), PyInt(5), PyStr("638"), PyBool(TRUE)}

GetIngredients(recipeID) ==
    /\ pc = "idle"
    /\ session # NoSession
    /\ IF ~RecipeIdValid(recipeID)
       THEN Fails("getIngredients", <<recipeID>>, "AssertionError")
       ELSE \E out \in Outcomes :
            LET o == IngredientsOutcome(recipeID, out)
                req == Request("GET", "recipes/ingredientWidget.json", recipeID, NoItem, o)
            IN  /\ cur' = IF o = "ok"
                          THEN [Call("getIngredients", <<recipeID>>)
                                   EXCEPT !.ingr = IngredientsJson(recipeID).ingredients,
                                          !.looked = TRUE]
                          ELSE Call("getIngredients", <<recipeID>>)
                /\ log' = <<req>>
                /\ ext' = FALSE
                /\ result' = IF o = "ok"
                             THEN Returned(IngredientTable(IngredientsJson(recipeID)))
                             ELSE Raised(GetError(o))
                /\ UNCHANGED <<session, remote, nextId, pc>>

----------------------------------------------------------------------------
\* The add-item request, as addIngredient and addAllIngredients send it.

\* The remote takes a new item while it has room for one.
CanAdd ==
    /\ Len(Items(remote)) < MaxItems
    /\ nextId <= MaxId

\* POST shopping-list/items: out = "ok" adds the item.
PostItem(sent, item, out) ==
    /\ out = "ok" => CanAdd
    /\ log' = Append(sent, Request("POST", "shopping-list/items",
                                   IF out = "ok" THEN PyInt(nextId) ELSE PyNone,
                                   item, out))
    /\ IF out = "ok"
       THEN /\ remote' = RemoteAdd(remote, nextId, item)
            /\ nextId' = nextId + 1
       ELSE UNCHANGED <<remote, nextId>>

----------------------------------------------------------------------------
\* GroceryList.addIngredient

\* Variant, for the sensitivity of the properties: the amount is not checked.
AddIngredientArgsValidNoAmount(ingred, amount, unit) ==
    /\ IsInstanceStr(ingred)
    /\ IsInstanceStr(unit)

AddIngredientArgsValid(ingred, amount, unit) ==
    /\ IsInstanceStr(ingred)
    /\ IsInstanceIntOrFloat(amount)
    /\ IsInstanceStr(unit)

\* 'item': f'{amount} {unit} {ingred}'
ItemText(amount, unit, name) == [amount |-> amount, unit |-> unit, name |-> name]

AddIngredient(ingred, amount, unit) ==
    /\ pc = "idle"
    /\ session # NoSession
    /\ IF ~AddIngredientArgsValid(ingred, amount, unit)
       THEN Fails("addIngredient", <<ingred, amount, unit>>, "AssertionError")
       ELSE \E out \in Outcomes :
            /\ PostItem(<<>>, ItemText(amount, unit, ingred), out)
            /\ cur' = Call("addIngredient", <<ingred, amount, unit>>)
            /\ ext' = FALSE
            /\ UNCHANGED session
            /\ IF RequestRaises(out)
               THEN result' = Raised("ConnectionError") /\ pc' = "idle"
               ELSE result' = NoResult /\ pc' = "fetch"

----------------------------------------------------------------------------
\* GroceryList.addAllIngredients

\* for ingredient in get_ingred['ingredients']: the ingredient of iteration
\* i + 1.
\* Variant, for the sensitivity of the properties: the loop runs backwards.
LoopIngredientReversed(ingredients, i) == ingredients[Len(ingredients) - i]

LoopIngredient(ingredients, i) == ingredients[i + 1]

\* The lookup and, with no ingredient to add, the end of the loop.
AddAllIngredients(recipeID) ==
    /\ pc = "idle"
    /\ session # NoSession
    /\ IF ~RecipeIdValid(recipeID)
       THEN Fails("addAllIngredients", <<recipeID>>, "AssertionError")
       ELSE \E out \in Outcomes :
            LET o == IngredientsOutcome(recipeID, out)
                req == Request("GET", "recipes/ingredientWidget.json", recipeID, NoItem, o)
                ingr == IngredientsJson(recipeID).ingredients
            IN  /\ log' = <<req>>
                /\ ext' = FALSE
                /\ UNCHANGED <<session, remote, nextId>>
                /\ IF o = "ok"
                   THEN /\ cur' = [Call("addAllIngredients", <<recipeID>>)
                                      EXCEPT !.ingr = ingr, !.looked = TRUE]
                        /\ result' = NoResult
                        /\ pc' = IF ingr = <<>> THEN "fetch" ELSE "adding"
                   ELSE /\ cur' = Call("addAllIngredients", <<recipeID>>)
                        /\ result' = Raised(GetError(o))
                        /\ pc' = "idle"

\* One iteration of the loop: the add-item request for the next ingredient.
AddAllPost(out) ==
    /\ pc = "adding"
    /\ LET ingredient == LoopIngredient(cur.ingr, cur.i)
           item == ItemText(PyFloat(ingredient.amount.metric.value),
                            PyStr(ingredient.amount.metric.unit),
                            PyStr(ingredient.name))
       IN  PostItem(log, item, out)
    /\ cur' = [cur EXCEPT !.i = @ + 1]
    /\ IF RequestRaises(out)
       THEN result' = Raised("ConnectionError") /\ pc' = "idle"
       ELSE /\ result' = result
            /\ pc' = IF cur.i + 1 = Len(cur.ingr) THEN "fetch" ELSE "adding"
    /\ UNCHANGED <<session, ext>>

----------------------------------------------------------------------------
\* GroceryList.getShoppingList

ItemRow(item, ups) ==
    [Item |-> PyStr(item.name),
     Amount |-> PyFloat(item.measures.metric.amount),
     Unit |-> PyStr(item.measures.metric.unit),
     Cost |-> PyFloat(Round2(item.cost, item.cost \in ups)),
     ItemID |-> PyInt(item.id)]

\* for aisle in shopping_list['aisles']: for item in aisle['items']
ItemRows(json, ups) ==
    LET items == Items(json.aisles)
    IN  [i \in 1..Len(items) |-> ItemRow(items[i], ups)]

\* shopping_df.loc[len(shopping_df.index), 'Item'] = "Total cost": a new last
\* row, NaN but for its Item; where the frame inferred an integer dtype for
\* the Item ID column (infer), the NaN turns the column's values into floats.
WithTotalLabel(rows, infer) ==
    Append([i \in 1..Len(rows) |->
               IF infer THEN [rows[i] EXCEPT !.ItemID = PyFloat(@.n)] ELSE rows[i]],
           [Item |-> PyStr("Total cost"), Amount |-> NaN, Unit |-> NaN,
            Cost |-> NaN, ItemID |-> NaN])

\* shopping_df.loc[shopping_df['Item'] == 'Total cost', 'Cost (USD)'] = total
WithTotalCost(rows, total) ==
    [i \in 1..Len(rows) |->
        IF rows[i].Item = PyStr("Total cost")
        THEN [rows[i] EXCEPT !.Cost = PyFloat(total)] ELSE rows[i]]

\* shopping_df.fillna('')
FillCell(v) == IF v.t = "nan" THEN PyStr("") ELSE v

FillNa(rows) ==
    [i \in 1..Len(rows) |->
        [Item |-> FillCell(rows[i].Item), Amount |-> FillCell(rows[i].Amount),
         Unit |-> FillCell(rows[i].Unit), Cost |-> FillCell(rows[i].Cost),
         ItemID |-> FillCell(rows[i].ItemID)]]

\* shopping_df.iloc[0:-1, 4] = shopping_df.iloc[0:-1, 4].astype(int)
AsTypeInt(v) == [t |-> "int", s |-> "", n |-> (v.n \div Milli) * Milli]

\* Variant, for the sensitivity of the properties: the identifiers are left as they are.
WithUncoercedIds(rows) == rows

WithIntIds(rows) ==
    [i \in 1..Len(rows) |->
        IF i < Len(rows) THEN [rows[i] EXCEPT !.ItemID = AsTypeInt(@)] ELSE rows[i]]

ShoppingTable(json, ups, infer) ==
    WithIntIds(FillNa(WithTotalCost(WithTotalLabel(ItemRows(json, ups), infer),
                                    Round2(json.cost, json.cost \in ups))))

\* The money values of a shopping-list answer.
MoneyOf(json) == {it.cost : it \in Range(Items(json.aisles))} \cup {json.cost}

GetShoppingList ==
    /\ pc = "idle"
    /\ session # NoSession
    /\ cur' = Call("getShoppingList", <<>>)
    /\ log' = <<>>
    /\ result' = NoResult
    /\ ext' = FALSE
    /\ pc' = "fetch"
    /\ UNCHANGED <<session, remote, nextId>>

\* The request of getShoppingList and the table made of its answer; every
\* call that changes the list ends in it.
FetchShoppingList(out) ==
    /\ pc = "fetch"
    /\ LET json == ShoppingListJson(remote)
       IN  /\ log' = Append(log, Request("GET", "shopping-list", PyNone, NoItem, out))
           /\ IF out = "ok"
              THEN /\ \E ups \in SUBSET Ties(MoneyOf(json)), infer \in BOOLEAN :
                          result' = Returned(ShoppingTable(json, ups, infer))
                   /\ cur' = [cur EXCEPT !.json = json, !.fetched = TRUE]
              ELSE /\ result' = Raised(GetError(out))
                   /\ cur' = cur
    /\ pc' = "idle"
    /\ UNCHANGED <<session, remote, nextId, ext>>

----------------------------------------------------------------------------
\* GroceryList.deleteItem

\* Variant, for the sensitivity of the properties: only the first argument is checked.
DeleteArgsValidFirstOnly(item_IDs) ==
    item_IDs = <<>> \/ IsInstanceInt(item_IDs[1])

DeleteArgsValid(item_IDs) ==
    \A i \in 1..Len(item_IDs) : IsInstanceInt(item_IDs[i])

\* for item_ID in item_IDs: the identifier of iteration i + 1.
\* Variant, for the sensitivity of the properties: the loop runs backwards.
LoopItemIdReversed(item_IDs, i) == item_IDs[Len(item_IDs) - i]

LoopItemId(item_IDs, i) == item_IDs[i + 1]

DeleteArgs == {PyInt(1), PyInt(2), PyStr("1")}

DeleteItem(item_IDs) ==
    /\ pc = "idle"
    /\ session # NoSession
    /\ IF ~DeleteArgsValid(item_IDs)
       THEN Fails("deleteItem", item_IDs, "Exception: Item IDs must all be integers")
       ELSE /\ cur' = Call("deleteItem", item_IDs)
            /\ log' = <<>>
            /\ result' = NoResult
            /\ ext' = FALSE
            /\ pc' = IF item_IDs = <<>> THEN "fetch" ELSE "deleting"
            /\ UNCHANGED <<session, remote, nextId>>

\* One iteration of the loop: the DELETE request for the next identifier.
\* The remote deletes the item the URL names, and nothing when it names
\* none; it may then drop an aisle left without items (prune).
DeleteItemStep(out, prune) ==
    /\ pc = "deleting"
    /\ LET item_ID == LoopItemId(cur.args, cur.i)
           id == UrlItemId(item_ID)
           o == IF out = "ok" /\ id \notin ItemIds(remote) THEN "rejected" ELSE out
           left == RemoteDelete(remote, id)
       IN  /\ log' = Append(log, Request("DELETE", "shopping-list/items/id",
                                         item_ID, NoItem, o))
           /\ remote' = IF o = "ok" THEN (IF prune THEN Pruned(left) ELSE left)
                        ELSE remote
    /\ cur' = [cur EXCEPT !.i = @ + 1]
    /\ IF RequestRaises(out)
       THEN result' = Raised("ConnectionError") /\ pc' = "idle"
       ELSE /\ result' = result
            /\ pc' = IF cur.i + 1 = Len(cur.args) THEN "fetch" ELSE "deleting"
    /\ UNCHANGED <<session, nextId, ext>>

----------------------------------------------------------------------------
\* Other clients of the same remote list, between two requests of a running
\* call: at most one change per call.

ExternalAdd ==
    /\ pc # "idle"
    /\ ~ext
    /\ CanAdd
    /\ remote' = RemoteAdd(remote, nextId,
                           ItemText(PyFloat(250000), PyStr("ml"), PyStr("milk")))
    /\ nextId' = nextId + 1
    /\ ext' = TRUE
    /\ UNCHANGED <<session, pc, cur, log, result>>

ExternalDelete(id) ==
    /\ pc # "idle"
    /\ ~ext
    /\ id \in ItemIds(remote)
    /\ remote' = RemoteDelete(remote, id)
    /\ ext' = TRUE
    /\ UNCHANGED <<session, nextId, pc, cur, log, result>>

----------------------------------------------------------------------------
Next ==
    \/ \E args \in CtorInputs : Construct(args)
    \/ \E query \in Queries, ingreds \in SeqsUpTo(Filters, MaxArgs) :
          SearchRecipe(query, ingreds)
    \/ \E recipeID \in RecipeIds : GetIngredients(recipeID)
    \/ \E ingred \in {PyStr("Total cost"), PyNone}, amount \in {PyInt(2), PyStr("2")},
          unit \in {PyStr("g"), PyNone} :
          AddIngredient(ingred, amount, unit)
    \/ \E recipeID \in RecipeIds : AddAllIngredients(recipeID)
    \/ \E out \in Outcomes : AddAllPost(out)
    \/ GetShoppingList
    \/ \E out \in Outcomes : FetchShoppingList(out)
    \/ \E item_IDs \in SeqsUpTo(DeleteArgs, MaxArgs) : DeleteItem(item_IDs)
    \/ \E out \in Outcomes, prune \in BOOLEAN : DeleteItemStep(out, prune)
    \/ ExternalAdd
    \/ \E id \in 1..MaxId : ExternalDelete(id)

Spec == Init /\ [][Next]_vars

\* The calls that leave the shopping list alone.
NextSession ==
    \/ \E args \in CtorInputs : Construct(args)
    \/ \E query \in Queries, ingreds \in SeqsUpTo(Filters, MaxArgs) :
          SearchRecipe(query, ingreds)
    \/ \E recipeID \in RecipeIds : GetIngredients(recipeID)

SpecSession == Init /\ [][NextSession]_vars

\* The constructor and the calls that take arguments of a stated type, with
\* the requests they go on to send.
NextTyped ==
    \/ \E args \in CtorInputs : Construct(args)
    \/ \E query \in Queries, ingreds \in SeqsUpTo(Filters, MaxArgs) :
          SearchRecipe(query, ingreds)
    \/ \E recipeID \in RecipeIds : GetIngredients(recipeID)
    \/ \E ingred \in {PyStr("Total cost"), PyNone}, amount \in {PyInt(2), PyStr("2")},
          unit \in {PyStr("g"), PyNone} :
          AddIngredient(ingred, amount, unit)
    \/ \E recipeID \in RecipeIds : AddAllIngredients(recipeID)
    \/ \E out \in Outcomes : AddAllPost(out)
    \/ \E out \in Outcomes : FetchShoppingList(out)

SpecTyped == Init /\ [][NextTyped]_vars

\* The calls on the shopping list, of an object constructed with a good key.
InitList ==
    /\ session = SessionOf(<<PyStr("ann"), PyStr("Ann"), PyStr("Lee"),
                             PyStr("ann@x.org"), PyStr(GoodKey)>>, ConnectJson("ann"))
    /\ remote = <<>>
    /\ nextId = 1
    /\ pc = "idle"
    /\ cur = Call("none", <<>>)
    /\ log = <<>>
    /\ result = NoResult
    /\ ext = FALSE

NextList ==
    \/ \E ingred \in {PyStr("Total cost"), PyNone}, amount \in {PyInt(2), PyStr("2")},
          unit \in {PyStr("g"), PyNone} :
          AddIngredient(ingred, amount, unit)
    \/ \E recipeID \in RecipeIds : AddAllIngredients(recipeID)
    \/ \E out \in Outcomes : AddAllPost(out)
    \/ GetShoppingList
    \/ \E out \in Outcomes : FetchShoppingList(out)
    \/ \E item_IDs \in SeqsUpTo(DeleteArgs, MaxArgs) : DeleteItem(item_IDs)
    \/ \E out \in Outcomes, prune \in BOOLEAN : DeleteItemStep(out, prune)
    \/ ExternalAdd
    \/ \E id \in 1..MaxId : ExternalDelete(id)

SpecList == InitList /\ [][NextList]_vars

----------------------------------------------------------------------------
\* Properties.

\* A Python integer (bool is a subclass of int), number, string.
IsInteger(v) == v.t = "int" \/ v.t = "bool"
IsNumber(v) == IsInteger(v) \/ v.t = "float"
IsString(v) == v.t = "str"

\* shown (dollars) is raw (cents) divided by 100 and rounded to 2 decimals:
\* a multiple of 0.01 at most half of 0.01 away.
IsRounded2(raw, shown) ==
    /\ shown % 10 = 0
    /\ 100 * shown - raw <= 500
    /\ raw - 100 * shown <= 500

\* The call has ended in a validation error before any request, and has
\* left the remote list and the caller's object alone.
RejectedUnsent ==
    /\ pc = "idle"
    /\ result.kind = "error"
    /\ result.error \in {"AssertionError", "Exception: Ingredients must be in strings",
                         "Exception: Item IDs must all be integers"}
    /\ log = <<>>
    /\ session = cur.had
    /\ ~ext => remote = cur.before

\* The add-item request of an ingredient.
IsAddOf(req, ingredient) ==
    /\ req.m = "POST"
    /\ req.ep = "shopping-list/items"
    /\ req.item = [amount |-> PyFloat(ingredient.amount.metric.value),
                   unit |-> PyStr(ingredient.amount.metric.unit),
                   name |-> PyStr(ingredient.name)]

IsFetch(req) == req.m = "GET" /\ req.ep = "shopping-list"

\* The table a call returned is made of the shopping-list answer it fetched.
TableIsOfFetch ==
    /\ cur.fetched
    /\ \E ups \in SUBSET Ties(MoneyOf(cur.json)), infer \in BOOLEAN :
          result.table = ShoppingTable(cur.json, ups, infer)

\* C1: deleteItem with an argument list that holds a non-integer, at any
\* position, ends in the validation error with no request sent (no DELETE, no
\* shopping-list GET) and the remote list as it was.
C1_DeleteItemRejectsNonInteger ==
    (cur.op = "deleteItem" /\ \E i \in 1..Len(cur.args) : ~IsInteger(cur.args[i]))
    => (RejectedUnsent /\ result.error = "Exception: Item IDs must all be integers")

\* The non-integer is the second argument, and the first names an item of
\* the list, which is still there.
C1_Witness ==
    /\ cur.op = "deleteItem"
    /\ Len(cur.args) = 2
    /\ IsInteger(cur.args[1])
    /\ ~IsInteger(cur.args[2])
    /\ UrlItemId(cur.args[1]) \in ItemIds(remote)
    /\ result.kind = "error"

\* C2: addAllIngredients sends, after the lookup, one add-item POST per
\* ingredient of the lookup, in lookup order, one per loop iteration, and the
\* shopping-list GET only after the last of them; the call that returns has
\* sent as many POSTs as the recipe has ingredients (none for none) and
\* returns the table of that GET.
C2_AddAllOnePostPerIngredient ==
    (cur.op = "addAllIngredients" /\ cur.looked)
    => LET n == Len(cur.ingr)
       IN  /\ Len(log) >= 1
           /\ Len(log) <= n + 2
           /\ log[1].m = "GET" /\ log[1].ep = "recipes/ingredientWidget.json"
           /\ \A k \in 2..Len(log) :
                 IF k <= n + 1 THEN IsAddOf(log[k], cur.ingr[k - 1])
                 ELSE IsFetch(log[k])
           /\ pc = "adding" => (cur.i = Len(log) - 1 /\ cur.i < n)
           /\ pc = "fetch" => Len(log) = n + 1
           /\ result.kind = "table" => (Len(log) = n + 2 /\ TableIsOfFetch)

\* A recipe of two ingredients, both added, and the list returned.
C2_Witness ==
    /\ cur.op = "addAllIngredients"
    /\ Len(cur.ingr) = 2
    /\ result.kind = "table"
    /\ Len(log) = 4
    /\ log[2].out = "ok" /\ log[3].out = "ok"
    /\ Len(result.table) = 3

\* C3: deleteItem with integers only sends one DELETE per identifier, in
\* argument order, one per loop iteration, then one shopping-list GET after
\* the last DELETE; the table it returns is made of that GET and lists no
\* item the remote deleted for it (with no identifier: no DELETE, the list
\* as it is).
C3_DeleteOnePerIdThenFetch ==
    (cur.op = "deleteItem" /\ \A i \in 1..Len(cur.args) : IsInteger(cur.args[i]))
    => LET n == Len(cur.args)
       IN  /\ Len(log) <= n + 1
           /\ \A k \in 1..Len(log) :
                 IF k <= n
                 THEN log[k].m = "DELETE" /\ log[k].id = cur.args[k]
                 ELSE IsFetch(log[k])
           /\ pc = "deleting" => (cur.i = Len(log) /\ cur.i < n)
           /\ pc = "fetch" => Len(log) = n
           /\ result.kind = "table" =>
                 /\ Len(log) = n + 1
                 /\ TableIsOfFetch
                 /\ \A k \in 1..n : \A r \in 1..(Len(result.table) - 1) :
                       log[k].out = "ok" => result.table[r].ItemID # cur.args[k]

\* Two items of the list deleted in one call: both DELETEs carried out, the
\* table holds the total row only.
C3_Witness ==
    /\ cur.op = "deleteItem"
    /\ Len(cur.args) = 2
    /\ cur.args[1] # cur.args[2]
    /\ result.kind = "table"
    /\ log[1].out = "ok" /\ log[2].out = "ok"
    /\ Len(Items(cur.before)) = 2
    /\ Len(result.table) = 1

\* C4 as stated: whatever makes an add fail, the remote's rejection or the
\* transport's failure, the adds of all later ingredients are still sent: an
\* addAllIngredients call that is over after its lookup has sent one POST
\* per ingredient.
C4_Original ==
    (cur.op = "addAllIngredients" /\ cur.looked /\ pc = "idle")
    => Len(SelectSeq(log, LAMBDA r : r.m = "POST")) = Len(cur.ingr)

\* C4 amended: an add the remote rejects does not end the loop (a call over
\* with no transport failure has sent the POST of every ingredient), an add
\* on which the transport fails ends the call there (it is the last request,
\* the call raises the transport's error), and no add is rolled back: the
\* call sends no DELETE, and what the remote added is on the list unless
\* another client took it off.
C4_RejectedAddDoesNotAbort ==
    (cur.op = "addAllIngredients" /\ cur.looked)
    => LET posts == SelectSeq(log, LAMBDA r : r.m = "POST")
       IN  /\ \A k \in 1..Len(log) : log[k].m # "DELETE"
           /\ (pc = "idle" /\ \A k \in 1..Len(posts) : posts[k].out # "transport")
                 => Len(posts) = Len(cur.ingr)
           /\ \A k \in 1..Len(log) :
                 (log[k].m = "POST" /\ log[k].out = "transport")
                 => /\ k = Len(log)
                    /\ pc = "idle"
                    /\ result = Raised("ConnectionError")
           /\ ~ext => \A k \in 1..Len(posts) :
                         posts[k].out = "ok" => UrlItemId(posts[k].id) \in ItemIds(remote)

\* The remote rejected the first add of two and took the second; the call
\* returned the list.
C4_Witness ==
    /\ cur.op = "addAllIngredients"
    /\ Len(cur.ingr) = 2
    /\ Len(log) = 4
    /\ log[2].out = "rejected"
    /\ log[3].out = "ok"
    /\ result.kind = "table"

\* C5: the table of getShoppingList on a list of N items has N + 1 rows: a
\* row per item, aisle by aisle and item by item as the remote lists them,
\* each with its item id as an integer, then one last row "Total cost" with
\* Amount, Unit and Item ID blank.
C5_ShoppingTableShape ==
    (cur.fetched /\ result.kind = "table")
    => LET items == Items(cur.json.aisles)
           t == result.table
           n == Len(items)
       IN  /\ Len(t) = n + 1
           /\ \A i \in 1..n :
                 /\ t[i].Item = PyStr(items[i].name)
                 /\ t[i].Amount.n = items[i].measures.metric.amount
                 /\ t[i].Unit = PyStr(items[i].measures.metric.unit)
                 /\ t[i].ItemID = PyInt(items[i].id)
           /\ t[n + 1].Item = PyStr("Total cost")
           /\ t[n + 1].Amount = PyStr("")
           /\ t[n + 1].Unit = PyStr("")
           /\ t[n + 1].ItemID = PyStr("")

\* getShoppingList on a list of two aisles, one of them without items.
C5_Witness ==
    /\ cur.op = "getShoppingList"
    /\ result.kind = "table"
    /\ Len(cur.json.aisles) = 2
    /\ \E a \in 1..2 : cur.json.aisles[a].items = <<>>
    /\ Len(result.table) = 2

\* C10: in the table of getShoppingList every item row shows the item's own
\* cost, in cents, divided by 100 and rounded to 2 decimals, whatever the
\* item's name, and the last row the overall cost likewise.
C10_ItemRowsShowOwnCost ==
    (cur.fetched /\ result.kind = "table")
    => LET items == Items(cur.json.aisles)
           t == result.table
           n == Len(items)
       IN  /\ \A i \in 1..n :
                 t[i].Cost.t = "float" /\ IsRounded2(items[i].cost, t[i].Cost.n)
           /\ t[n + 1].Cost.t = "float"
           /\ IsRounded2(cur.json.cost, t[n + 1].Cost.n)

\* C6: a constructor call the remote answers with success leaves an object
\* whose username and hash are the remote's (not the caller's username) and
\* whose API key is the caller's; one the remote answers with 401 raises
\* the authorization error, leaves no new object and sends nothing more.
C6_SessionIsRemoteOrUnauthorized ==
    cur.op = "__init__"
    => /\ result.kind = "object"
          => /\ Len(log) = 1 /\ log[1].out = "ok"
             /\ session.username = ConnectJson(cur.args[1].s).username
             /\ session.hash = ConnectJson(cur.args[1].s).hash
             /\ session.API_Key = cur.args[5].s
       /\ (log # <<>> /\ log[1].out = "unauthorized")
          => /\ result = Raised("Exception: Not authorized, please check API Key")
             /\ session = cur.had
             /\ Len(log) = 1
             /\ pc = "idle"

\* An object whose username is the remote's and differs from the caller's.
C6_Witness ==
    /\ cur.op = "__init__"
    /\ result.kind = "object"
    /\ cur.args[1] = PyStr("ann")
    /\ session.username # "ann"
    /\ session.username = ConnectJson("ann").username

\* The arguments of the call are of a wrong type: a query or ingredient
\* filter that is no string, a recipe id that is no integer, an ingredient
\* name or unit that is no string, an amount that is no number, a
\* constructor field that is no string.
WrongTyped ==
    \/ /\ cur.op \in {"searchRecipe", "__init__"}
       /\ \E i \in 1..Len(cur.args) : ~IsString(cur.args[i])
    \/ /\ cur.op \in {"getIngredients", "addAllIngredients"}
       /\ ~IsInteger(cur.args[1])
    \/ /\ cur.op = "addIngredient"
       /\ ~IsString(cur.args[1]) \/ ~IsNumber(cur.args[2]) \/ ~IsString(cur.args[3])

\* C7: searchRecipe, getIngredients, addAllIngredients, addIngredient and the
\* constructor, called with an argument of a wrong type, end in a validation
\* error with no request sent and the remote list as it was.
C7_WrongTypeRejectedUnsent == WrongTyped => RejectedUnsent

\* addIngredient with an amount that is no number, on a list that holds an
\* item.
C7_Witness ==
    /\ cur.op = "addIngredient"
    /\ IsString(cur.args[1]) /\ IsString(cur.args[3])
    /\ ~IsNumber(cur.args[2])
    /\ result = Raised("AssertionError")
    /\ Items(remote) # <<>>

\* C8: searchRecipe returns at most 5 rows, a row per recipe of the remote's
\* answer in the answer's order, each with the recipe's price in cents
\* divided by 100 and rounded to 2 decimals; an answer without recipes gives
\* an empty table, not an error.
C8_SearchTable ==
    (cur.op = "searchRecipe" /\ log # <<>> /\ log[1].out = "ok")
    => LET t == result.table
       IN  /\ result.kind = "table"
           /\ Len(t) <= 5
           /\ Len(t) = Len(cur.found)
           /\ \A i \in 1..Len(t) :
                 /\ t[i].Recipe = PyStr(cur.found[i].title)
                 /\ t[i].Servings = PyInt(cur.found[i].servings)
                 /\ t[i].RecipeID = PyInt(cur.found[i].id)
                 /\ t[i].PricePerServing.t = "float"
                 /\ IsRounded2(cur.found[i].pricePerServing, t[i].PricePerServing.n)

\* A search that more than 5 recipes match: 5 rows, the fourth's price
\* rounded up.
C8_Witness ==
    /\ cur.op = "searchRecipe"
    /\ result.kind = "table"
    /\ Len(result.table) = 5
    /\ Len(Matching(Catalogue, cur.args[1].s, {})) > 5
    /\ cur.found[4].pricePerServing = 207700
    /\ result.table[4].PricePerServing = PyFloat(2080)

\* C9: getIngredients returns a row per ingredient of the remote's answer,
\* in the answer's order, amount and unit from the metric branch; it sends
\* one GET and nothing that changes the shopping list.
C9_IngredientTable ==
    cur.op = "getIngredients"
    => /\ \A k \in 1..Len(log) : log[k].m = "GET"
       /\ Len(log) <= 1
       /\ remote = cur.before
       /\ result.kind = "table"
          => /\ Len(log) = 1
             /\ cur.looked
             /\ Len(result.table) = Len(cur.ingr)
             /\ \A i \in 1..Len(cur.ingr) :
                   /\ result.table[i].Ingredient = PyStr(cur.ingr[i].name)
                   /\ result.table[i].Amount = PyFloat(cur.ingr[i].amount.metric.value)
                   /\ result.table[i].Unit = PyStr(cur.ingr[i].amount.metric.unit)

\* A recipe of two ingredients whose metric and US amounts differ.
C9_Witness ==
    /\ cur.op = "getIngredients"
    /\ result.kind = "table"
    /\ Len(result.table) = 2
    /\ \A i \in 1..2 : cur.ingr[i].amount.metric # cur.ingr[i].amount.us

====
